---- MODULE Spec2Model ----
(***************************************************************************)
(* MusicFileTools: the artwork tool (albumArt.py) and the metadata tool    *)
(* (metadata.py) as one sequential state machine.  A run is one invocation *)
(* of one of the two scripts on a command line `argv` (the script name     *)
(* left out) against a file system holding one music directory.            *)
(*                                                                         *)
(* What the libraries return (MP4() opening a file, audio.save(), the two  *)
(* HTTP GETs, Path.unlink) is drawn where the code calls them.             *)
(***************************************************************************)
EXTENDS Integers, Sequences, FiniteSets, TLC

\* ------------------------------------------------------------------ bounds
MaxFolders == 1       \* folder arguments of the artwork tool
MaxFiles == 2         \* .m4a files in the music directory

\* ------------------------------------------------------------------ values
None == "<None>"                       \* Python's None for text values
TruthyText(s) == s # None /\ s # ""    \* `if s:` for str-or-None

\* Image bytes: where they come from, what they decode to, whether they are
\* the output of resize_image / create_default_artwork.
NoBytes == [src |-> "none", kind |-> "empty", norm |-> FALSE]
Truthy(b) == b.kind # "empty"          \* `if image_data:` for bytes-or-None

\* The directory on disk.  "." and "../Z" both name it (the tool is run from
\* inside Z); "nodir" names nothing.  Every other token is not a directory.
IsDir(p) == p \in {".", "../Z"}
DirName == "Z"

\* pathlib: the components of a path; "." has none.
PathParts(p) ==
  CASE p = "." -> << >>
    [] p = "../Z" -> <<"..", "Z">>
    [] OTHER -> <<p>>

\* pathlib Path(p).name: the final component, "" when there is none.
PathName(p) ==
  LET parts == PathParts(p)
  IN IF Len(parts) = 0 THEN "" ELSE parts[Len(parts)]

\* The stem of the k-th matched file, cut at " - ":
\* "Title - Artist.m4a", "song.m4a", " - .m4a", ...
Stem(k) ==
  CASE k % 3 = 1 -> <<"Title", "Artist">>
    [] k % 3 = 2 -> <<"song">>
    [] OTHER -> <<"", "">>

VARIABLES
  tool,             \* "art" (albumArt.py) or "meta" (metadata.py)
  argv,             \* sys.argv[1:]
  files,            \* the directory's .m4a files: what the run saved in
                    \* each, [alb, covr], Untouched / NoBytes before it did
  cover,            \* the directory's cover.jpg: [exists, readable, content]
  pc,               \* position in the script
  exitCode,         \* None while running, then the process's exit code
  errPrinted,       \* an error or usage message was printed
  is_album_mode, folders, fi, total_succeeded, total_failed,
  folder_path, k, succeeded, failed, used_local_cover, image_data,
  audio,            \* shared mode: the tags read from m4a_files[0] for the
                    \* search, [ok, alb, nam, art]; ok is FALSE if MP4() raised
  search_title, search_artist,     \* shared mode: the text searched for
  command, album_name,
  ret,              \* the pair the folder function returned
  \* what the run has done so far (never read by the program)
  log,              \* per matched file of this folder call: "ok" or "fail"
  nSearch, nFetch,  \* shared mode: the HTTP GETs of the folder's lookup
  release_id,       \* shared mode: what the recording search yielded
  coverAtEntry,     \* cover.jpg as the folder call found it
  unlinked,         \* cover_file.unlink() in this call: "no", "done", "raised"
  pendingLookup,    \* a search_album_art call not yet followed by the sleep
  backToBack        \* a search_album_art call was made while one was pending

vars == <<tool, argv, files, cover, pc, exitCode, errPrinted, is_album_mode,
          folders, fi, total_succeeded, total_failed, folder_path, k,
          succeeded, failed, used_local_cover, image_data, audio,
          search_title, search_artist, command, album_name, ret, log,
          nSearch, nFetch, release_id, coverAtEntry, unlinked,
          pendingLookup, backToBack>>

\* ------------------------------------------------------------------ inputs
PathTokens == {".", "../Z", "nodir"}
MetaTokens == {"set", "del", "rm", ".", "../Z", "nodir", "New"}
MetaArgc == 3                          \* metadata.py reads sys.argv[1..3]
AlbVals == {None, "", "Alb"}
Untouched == "<untouched>"
ArtArgvs ==
  { pre \o fs : pre \in {<< >>, <<"album">>},
                fs \in UNION { [1..m -> PathTokens] : m \in 0..MaxFolders } }
MetaArgvs == UNION { [1..m -> MetaTokens] : m \in 0..MetaArgc }
CoverStates ==
  { [exists |-> FALSE, readable |-> FALSE, content |-> "empty"],
    [exists |-> TRUE, readable |-> FALSE, content |-> "image"] }
  \cup { [exists |-> TRUE, readable |-> TRUE, content |-> c] :
           c \in {"empty", "image", "junk"} }
NoCover == [exists |-> FALSE, readable |-> FALSE, content |-> "empty"]
NoAudio == [ok |-> FALSE, alb |-> None, nam |-> None, art |-> None]
Opened ==
  { [ok |-> TRUE, alb |-> b, nam |-> n, art |-> a] :
      b \in AlbVals, n \in {None, "Ttl"}, a \in {None, "Art"} }
\* Per-file mode does not read the album tag.
SongOpened == { a \in Opened : a.alb = None }
\* The recording search: a release id, or none (another status, no recording,
\* no release, an exception).  The cover fetch: bytes that decode, bytes that
\* do not, no bytes, or none (another status, an exception).
SearchOutcomes == {"found", "none"}
FetchOutcomes == {"image", "junk", "empty", "none"}

Init ==
  /\ tool \in {"art", "meta"}
  /\ argv \in IF tool = "art" THEN ArtArgvs ELSE MetaArgvs
  /\ files \in { [i \in 1..n |-> [alb |-> Untouched, covr |-> NoBytes]] :
                   n \in 0..MaxFiles }
  /\ cover \in CoverStates
  /\ pc = "start"
  /\ exitCode = None
  /\ errPrinted = FALSE
  /\ is_album_mode = FALSE
  /\ folders = << >>
  /\ fi = 1
  /\ total_succeeded = 0
  /\ total_failed = 0
  /\ folder_path = None
  /\ k = 1
  /\ succeeded = 0
  /\ failed = 0
  /\ used_local_cover = FALSE
  /\ image_data = NoBytes
  /\ audio = NoAudio
  /\ search_title = None
  /\ search_artist = None
  /\ command = None
  /\ album_name = None
  /\ ret = <<0, 0>>
  /\ log = << >>
  /\ nSearch = 0
  /\ nFetch = 0
  /\ release_id = None
  /\ coverAtEntry = NoCover
  /\ unlinked = "no"
  /\ pendingLookup = FALSE
  /\ backToBack = FALSE

\* ------------------------------------------------------- artwork resolver
\* search_musicbrainz without its `if not query_parts` guard: the request is
\* sent with an empty query.
search_musicbrainz_unguarded(title, artist, so) ==
  [rid |-> IF so = "found" THEN "rid" ELSE None, calls |-> 1]

\* search_musicbrainz: no request at all without a query term.
search_musicbrainz(title, artist, so) ==
  IF ~TruthyText(title) /\ ~TruthyText(artist)
  THEN [rid |-> None, calls |-> 0]
  ELSE [rid |-> IF so = "found" THEN "rid" ELSE None, calls |-> 1]

get_cover_art(rid, fo) ==
  IF fo \in {"image", "junk", "empty"}
  THEN [src |-> "remote", kind |-> fo, norm |-> FALSE]
  ELSE NoBytes

search_album_art(title, artist, so, fo) ==
  LET r == search_musicbrainz(title, artist, so)
  IN IF ~TruthyText(r.rid)
     THEN [data |-> NoBytes, rid |-> r.rid, nSearch |-> r.calls, nFetch |-> 0]
     ELSE LET c == get_cover_art(r.rid, fo)
          IN [data |-> IF Truthy(c) THEN c ELSE NoBytes, rid |-> r.rid,
              nSearch |-> r.calls, nFetch |-> 1]

\* load_local_cover looking for a file that is never there.
load_local_cover_missed(c) == NoBytes

load_local_cover(c) ==
  IF c.exists /\ c.readable
  THEN [src |-> "local", kind |-> c.content, norm |-> FALSE]
  ELSE NoBytes

resize_image(b) ==
  IF b.kind = "image" THEN [src |-> b.src, kind |-> "image", norm |-> TRUE]
  ELSE NoBytes

create_default_artwork == [src |-> "generated", kind |-> "image", norm |-> TRUE]

\* `if image_data: image_data = resize_image(image_data)`
ResizeIfAny(b) == IF Truthy(b) THEN resize_image(b) ELSE b

\* The fallback left out.
OrDefault_forgotten(b) == b

\* `if not image_data: image_data = create_default_artwork()`
OrDefault(b) == IF ~Truthy(b) THEN create_default_artwork ELSE b

\* The search text with the artist kept in the folder-name case.
SearchTerms_artist_kept(a, name) ==
  IF ~a.ok THEN [title |-> name, artist |-> None]
  ELSE IF TruthyText(a.alb) THEN [title |-> a.alb, artist |-> a.art]
  ELSE IF TruthyText(a.nam) THEN [title |-> a.nam, artist |-> a.art]
  ELSE [title |-> name, artist |-> a.art]

\* Shared mode's search text, from the first file's tags.
SearchTerms(a, name) ==
  IF ~a.ok THEN [title |-> name, artist |-> None]
  ELSE IF TruthyText(a.alb) THEN [title |-> a.alb, artist |-> a.art]
  ELSE IF TruthyText(a.nam) THEN [title |-> a.nam, artist |-> a.art]
  ELSE [title |-> name, artist |-> None]

\* Per-file mode's search text, from the file's tags or its name.
SongTerms(a, stem) ==
  IF TruthyText(a.nam) \/ TruthyText(a.art)
  THEN [title |-> a.nam, artist |-> a.art]
  ELSE IF Len(stem) > 1 THEN [title |-> stem[1], artist |-> stem[2]]
  ELSE [title |-> stem[1], artist |-> a.art]

\* `if used_local_cover and failed == 0 and succeeded > 0`
ShouldDeleteCover(used, f, s) == used /\ f = 0 /\ s > 0

\* The try around the loop instead of inside it: an exception ends the loop.
NextFile_abort(i, raised) == IF raised THEN MaxFiles + 1 ELSE i + 1

\* The loops go on to the next file, after a success and after an exception.
NextFile(i, raised) == i + 1

\* ------------------------------------------------------------ albumArt.py
frame == <<folder_path, k, succeeded, failed, used_local_cover, image_data>>
lookup == <<audio, search_title, search_artist, nSearch, nFetch, release_id>>
pacing == <<pendingLookup, backToBack, unlinked>>
metaVars == <<command, album_name>>
mainVars == <<is_album_mode, folders, fi, total_succeeded, total_failed>>
inputs == <<tool, argv>>

\* __main__, up to the folder loop: usage errors end the process with 1.
ArtMain ==
  /\ pc = "start" /\ tool = "art"
  /\ IF Len(argv) < 1
     THEN /\ errPrinted' = TRUE /\ exitCode' = 1 /\ pc' = "exit"
          /\ UNCHANGED <<is_album_mode, folders>>
     ELSE /\ is_album_mode' = (argv[1] = "album")
          /\ IF argv[1] = "album" /\ Len(argv) < 2
             THEN /\ errPrinted' = TRUE /\ exitCode' = 1 /\ pc' = "exit"
                  /\ folders' = folders
             ELSE /\ folders' = IF argv[1] = "album" THEN Tail(argv) ELSE argv
                  /\ pc' = "loop"
                  /\ UNCHANGED <<errPrinted, exitCode>>
  /\ UNCHANGED <<inputs, files, cover, fi, total_succeeded, total_failed,
                 frame, lookup, metaVars, ret, log, coverAtEntry, pacing>>

\* The loop's call of add_album_art_to_folder / add_album_art_per_song, up to
\* the function's first loop: the two early returns of (0, 0), or the locals.
ArtCallFolder ==
  /\ pc = "loop" /\ fi <= Len(folders)
  /\ folder_path' = folders[fi]
  /\ coverAtEntry' = cover
  /\ IF ~IsDir(folders[fi])
     THEN /\ errPrinted' = TRUE /\ ret' = <<0, 0>> /\ pc' = "ret"
     ELSE IF Len(files) = 0
     THEN /\ ret' = <<0, 0>> /\ pc' = "ret" /\ UNCHANGED errPrinted
     ELSE /\ pc' = IF is_album_mode THEN "resolve" ELSE "persong"
          /\ UNCHANGED <<ret, errPrinted>>
  /\ UNCHANGED <<inputs, files, cover, exitCode, mainVars, k, succeeded,
                 failed, used_local_cover, image_data, lookup, metaVars, log,
                 pacing>>

\* add_album_art_to_folder: the artwork of the folder, local cover first.
AlbumResolve ==
  /\ pc = "resolve"
  /\ LET raw == load_local_cover(cover)
     IN IF Truthy(raw)
        THEN /\ image_data' = OrDefault(resize_image(raw))
             /\ used_local_cover' = TRUE
             /\ UNCHANGED lookup
        ELSE \E a \in Opened \cup {NoAudio}, so \in SearchOutcomes,
                fo \in FetchOutcomes :
               LET t == SearchTerms(a, PathName(folder_path))
                   r == search_album_art(t.title, t.artist, so, fo)
               IN /\ audio' = a
                  /\ search_title' = t.title
                  /\ search_artist' = t.artist
                  /\ nSearch' = r.nSearch
                  /\ nFetch' = r.nFetch
                  /\ release_id' = r.rid
                  /\ image_data' = OrDefault(ResizeIfAny(r.data))
                  /\ UNCHANGED used_local_cover
  /\ pc' = "apply"
  /\ UNCHANGED <<inputs, files, cover, exitCode, errPrinted, mainVars,
                 folder_path, k, succeeded, failed, metaVars, ret, log,
                 coverAtEntry, pacing>>

\* add_album_art_to_folder: one turn of the write loop.  The loop rebinds
\* audio; the tags read for the search and the search text are not read again.
AlbumApplyFile ==
  /\ pc = "apply" /\ k <= Len(files)
  /\ \E openOK \in BOOLEAN, saveOK \in BOOLEAN :
       IF openOK /\ saveOK
       THEN /\ files' = [files EXCEPT ![k].covr = image_data]
            /\ succeeded' = succeeded + 1
            /\ log' = Append(log, "ok")
            /\ k' = NextFile(k, FALSE)
            /\ UNCHANGED failed
       ELSE /\ failed' = failed + 1
            /\ log' = Append(log, "fail")
            /\ k' = NextFile(k, TRUE)
            /\ UNCHANGED <<files, succeeded>>
  /\ audio' = NoAudio /\ search_title' = None /\ search_artist' = None
  /\ pc' = IF k' > Len(files) THEN "cleanup" ELSE "apply"
  /\ UNCHANGED <<inputs, cover, exitCode, errPrinted, mainVars, folder_path,
                 used_local_cover, image_data, metaVars, ret, nSearch, nFetch,
                 release_id, coverAtEntry, pacing>>

\* add_album_art_to_folder: the removal of cover.jpg, and the return.
AlbumCleanup ==
  /\ pc = "cleanup"
  /\ IF ShouldDeleteCover(used_local_cover, failed, succeeded)
     THEN \E unlinkOK \in BOOLEAN :
            /\ cover' = IF unlinkOK THEN NoCover ELSE cover
            /\ unlinked' = IF unlinkOK THEN "done" ELSE "raised"
     ELSE UNCHANGED <<cover, unlinked>>
  /\ ret' = <<succeeded, failed>>
  /\ pc' = "ret"
  /\ UNCHANGED <<inputs, files, exitCode, errPrinted, mainVars, frame, lookup,
                 metaVars, log, coverAtEntry, pendingLookup, backToBack>>

\* add_album_art_per_song: one turn of the loop.
PerSongFile ==
  /\ pc = "persong" /\ k <= Len(files)
  /\ \E a \in SongOpened \cup {NoAudio}, so \in SearchOutcomes,
        fo \in FetchOutcomes, saveOK \in BOOLEAN :
       LET t == SongTerms(a, Stem(k))
           r == search_album_art(t.title, t.artist, so, fo)
           found == ResizeIfAny(r.data)
           f1 == IF Truthy(found) THEN failed ELSE failed + 1
       IN IF ~a.ok
          THEN /\ failed' = failed + 1
               /\ log' = Append(log, "fail")
               /\ k' = NextFile(k, TRUE)
               /\ UNCHANGED <<files, succeeded, image_data, pendingLookup,
                              backToBack>>
          ELSE /\ backToBack' = (backToBack \/ pendingLookup)
               /\ image_data' = OrDefault(found)
               /\ succeeded' = IF Truthy(found) THEN succeeded + 1 ELSE succeeded
               /\ IF saveOK
                  THEN /\ files' = [files EXCEPT ![k].covr = OrDefault(found)]
                       /\ failed' = f1
                       /\ log' = Append(log, "ok")
                       /\ pendingLookup' = FALSE     \* time.sleep(1.1)
                       /\ k' = NextFile(k, FALSE)
                  ELSE /\ failed' = f1 + 1
                       /\ log' = Append(log, "fail")
                       /\ pendingLookup' = TRUE
                       /\ k' = NextFile(k, TRUE)
                       /\ UNCHANGED files
  /\ pc' = IF k' > Len(files) THEN "songret" ELSE "persong"
  /\ UNCHANGED <<inputs, cover, exitCode, errPrinted, mainVars, folder_path,
                 used_local_cover, lookup, metaVars, ret, coverAtEntry,
                 unlinked>>

\* add_album_art_per_song: the return.
PerSongReturn ==
  /\ pc = "songret"
  /\ ret' = <<succeeded, failed>>
  /\ pc' = "ret"
  /\ UNCHANGED <<inputs, files, cover, exitCode, errPrinted, mainVars, frame,
                 lookup, metaVars, log, coverAtEntry, pacing>>

\* __main__: the totals take the pair returned; the function's frame is gone.
ArtAccumulate ==
  /\ pc = "ret"
  /\ total_succeeded' = total_succeeded + ret[1]
  /\ total_failed' = total_failed + ret[2]
  /\ fi' = fi + 1
  /\ pc' = "loop"
  /\ folder_path' = None /\ k' = 1 /\ succeeded' = 0 /\ failed' = 0
  /\ used_local_cover' = FALSE /\ image_data' = NoBytes
  /\ audio' = NoAudio /\ search_title' = None /\ search_artist' = None
  /\ nSearch' = 0 /\ nFetch' = 0 /\ release_id' = None
  /\ log' = << >> /\ coverAtEntry' = NoCover /\ ret' = <<0, 0>>
  /\ unlinked' = "no"
  /\ UNCHANGED <<inputs, files, cover, exitCode, errPrinted, is_album_mode,
                 folders, metaVars, pendingLookup, backToBack>>

\* __main__: the loop is over; the script runs off its end.
ArtExit ==
  /\ pc = "loop" /\ fi > Len(folders)
  /\ exitCode' = 0
  /\ pc' = "exit"
  /\ UNCHANGED <<inputs, files, cover, errPrinted, mainVars, frame, lookup,
                 metaVars, ret, log, coverAtEntry, pacing>>

\* ------------------------------------------------------------ metadata.py
\* __main__ and update_m4a_metadata up to its loop.
MetaMain ==
  /\ pc = "start" /\ tool = "meta"
  /\ IF Len(argv) < 2
     THEN /\ errPrinted' = TRUE /\ exitCode' = 1 /\ pc' = "exit"
          /\ UNCHANGED <<command, folder_path, album_name>>
     ELSE /\ command' = argv[1]
          /\ folder_path' = argv[2]
          /\ IF argv[1] \notin {"set", "del"}
             THEN /\ errPrinted' = TRUE /\ exitCode' = 1 /\ pc' = "exit"
                  /\ UNCHANGED album_name
             ELSE /\ album_name' =
                       IF argv[1] = "del" THEN None
                       ELSE IF Len(argv) > 2 THEN argv[3]
                       ELSE PathName(argv[2])
                  /\ IF ~IsDir(argv[2])
                     THEN /\ errPrinted' = TRUE /\ exitCode' = 1 /\ pc' = "exit"
                     ELSE /\ pc' = "metaloop"
                          /\ UNCHANGED <<errPrinted, exitCode>>
  /\ UNCHANGED <<inputs, files, cover, mainVars, k, succeeded, failed,
                 used_local_cover, image_data, lookup, ret, log, coverAtEntry,
                 pacing>>

\* The album tag a file is saved with: the old one removed, the new one set
\* if there is one.
NewAlbum(old, name) == IF TruthyText(name) THEN name ELSE None

\* update_m4a_metadata: one turn of the loop.
MetaFile ==
  /\ pc = "metaloop" /\ k <= Len(files)
  /\ \E openOK \in BOOLEAN, saveOK \in BOOLEAN :
       IF openOK /\ saveOK
       THEN /\ files' = [files EXCEPT ![k].alb = NewAlbum(files[k].alb, album_name)]
            /\ log' = Append(log, "ok")
            /\ k' = NextFile(k, FALSE)
       ELSE /\ log' = Append(log, "fail")
            /\ k' = NextFile(k, TRUE)
            /\ UNCHANGED files
  /\ UNCHANGED <<inputs, cover, pc, exitCode, errPrinted, mainVars,
                 folder_path, succeeded, failed, used_local_cover, image_data,
                 lookup, metaVars, ret, coverAtEntry, pacing>>

\* __main__: the closing message; the script runs off its end.
MetaExit ==
  /\ pc = "metaloop" /\ k > Len(files)
  /\ exitCode' = 0
  /\ pc' = "exit"
  /\ UNCHANGED <<inputs, files, cover, errPrinted, mainVars, frame, lookup,
                 metaVars, ret, log, coverAtEntry, pacing>>

Next ==
  \/ ArtMain
  \/ ArtCallFolder
  \/ AlbumResolve
  \/ AlbumApplyFile
  \/ AlbumCleanup
  \/ PerSongFile
  \/ PerSongReturn
  \/ ArtAccumulate
  \/ ArtExit
  \/ MetaMain
  \/ MetaFile
  \/ MetaExit

Spec == Init /\ [][Next]_vars

\* ------------------------------------------------------------------ claims
NormLocal == [src |-> "local", kind |-> "image", norm |-> TRUE]
NormRemote == [src |-> "remote", kind |-> "image", norm |-> TRUE]
Placeholder == [src |-> "generated", kind |-> "image", norm |-> TRUE]

\* Shared mode, the artwork resolved and the write loop or the removal ahead.
Resolved == tool = "art" /\ is_album_mode /\ pc \in {"apply", "cleanup"}
\* Shared mode, the state AlbumResolve leaves: the lookup's record is whole.
JustResolved == tool = "art" /\ is_album_mode /\ pc = "apply" /\ k = 1
\* A folder function has returned for a directory.
Returned == tool = "art" /\ pc = "ret" /\ IsDir(folder_path)

\* C1 as stated: in shared mode, a folder holding a cover.jpg (and a .m4a
\* file) gets its artwork from cover.jpg's bytes, with no recording search
\* and no cover fetch.
C1_Original ==
  (Resolved /\ coverAtEntry.exists) =>
    /\ nSearch = 0 /\ nFetch = 0
    /\ image_data = NormLocal

\* C1 amended: in shared mode, a folder whose cover.jpg is read and is not
\* empty makes no recording search and no cover fetch; the artwork is the
\* normalized cover.jpg if its bytes decode and the placeholder if not.
C1_LocalCoverNoRemote ==
  (Resolved /\ coverAtEntry.exists /\ coverAtEntry.readable
     /\ coverAtEntry.content # "empty") =>
    /\ nSearch = 0 /\ nFetch = 0
    /\ used_local_cover
    /\ image_data = IF coverAtEntry.content = "image" THEN NormLocal
                    ELSE Placeholder

C1_Witness ==
  /\ Resolved /\ coverAtEntry.readable /\ coverAtEntry.content = "image"
  /\ image_data = NormLocal /\ nSearch = 0
  /\ \E i \in 1..Len(files) : files[i].covr = NormLocal

\* C2 as stated: in shared mode cover.jpg is removed after the write loop if
\* and only if every file was written and the artwork came from cover.jpg; if
\* a file failed, or the artwork written did not come from cover.jpg,
\* cover.jpg is still there when the function returns.  (A removal that
\* raises counts as the removal here.)
C2_Claim ==
  (Returned /\ is_album_mode /\ Len(files) > 0 /\ coverAtEntry.exists) =>
    /\ (unlinked # "no") <=> (failed = 0 /\ image_data.src = "local")
    /\ (failed > 0 \/ image_data.src # "local") => cover.exists

\* C3 as stated: in shared mode, a folder without cover.jpg makes exactly one
\* recording search, and exactly one cover fetch if the search yielded a
\* release id, none otherwise.
C3_Original ==
  (Resolved /\ ~coverAtEntry.exists) =>
    /\ nSearch = 1
    /\ nFetch = IF TruthyText(release_id) THEN 1 ELSE 0

\* C3 amended: in shared mode, a folder without cover.jpg makes exactly one
\* recording search if it has a search text (a title or an artist that is
\* not empty) and none if it has not; and exactly one cover fetch if the
\* search yielded a release id, none otherwise.
C3_OneSearchIfText ==
  (JustResolved /\ ~coverAtEntry.exists) =>
    /\ nSearch = IF TruthyText(search_title) \/ TruthyText(search_artist)
                 THEN 1 ELSE 0
    /\ nFetch = IF TruthyText(release_id) THEN 1 ELSE 0
    /\ nFetch <= nSearch

C3_Witness ==
  /\ JustResolved /\ ~coverAtEntry.exists
  /\ nSearch = 1 /\ nFetch = 1 /\ image_data = NormRemote

\* C4 as stated: in per-file mode the delay is executed between any two
\* successive lookups: no search_album_art call is made while an earlier one
\* has not been followed by time.sleep.
C4_Claim == ~backToBack

\* C5: every value assigned to a cover tag is non-empty and is the normalized
\* cover.jpg, normalized fetched bytes or the placeholder; the normalized
\* cover.jpg only where the folder's cover.jpg decodes.
GoodArt(b) == Truthy(b) /\ b \in {NormLocal, NormRemote, Placeholder}

C5_NeverNothing ==
  /\ Resolved => GoodArt(image_data)
  /\ (tool = "art" /\ pc \in {"persong", "songret"} /\ k > 1) =>
       (image_data = NoBytes \/ (GoodArt(image_data) /\ image_data # NormLocal))
  /\ \A i \in 1..Len(files) :
       /\ files[i].covr # NoBytes => GoodArt(files[i].covr)
       /\ (tool = "art" /\ i <= Len(log) /\ log[i] = "ok") =>
            GoodArt(files[i].covr)
  /\ (Resolved /\ image_data = NormLocal) =>
       (coverAtEntry.readable /\ coverAtEntry.content = "image")

C5_Witness ==
  /\ tool = "art" /\ Len(log) = Len(files)
  /\ \E i \in 1..Len(files) : log[i] = "ok" /\ files[i].covr = Placeholder
  /\ \E i \in 1..Len(files) : log[i] = "ok" /\ files[i].covr = NormRemote

\* C6: an exception from one file's open or save does not end the loop: when
\* a loop is over every matched file was attempted, the artwork tool's
\* failed count is at least the number of files that raised, and every file
\* that did not raise was saved with the new tag.
Raised == { i \in 1..Len(log) : log[i] = "fail" }
LoopOver ==
  \/ tool = "art" /\ pc \in {"cleanup", "songret"}
  \/ tool = "meta" /\ pc = "exit" /\ exitCode = 0

C6_EveryFileAttempted ==
  LoopOver =>
    /\ Len(log) = Len(files)
    /\ tool = "art" => failed >= Cardinality(Raised)
    /\ \A i \in 1..Len(log) :
         log[i] = "ok" =>
           IF tool = "art" THEN files[i].covr # NoBytes
           ELSE files[i].alb # Untouched

C6_Witness ==
  /\ LoopOver /\ Len(files) = 2
  /\ log = <<"fail", "ok">>
  /\ failed >= 1

\* C7 as stated: `set <folder>` without an album argument leaves every
\* matched file whose save succeeds with the folder's own name as album tag.
C7_Claim ==
  (tool = "meta" /\ pc = "exit" /\ exitCode = 0 /\ command = "set"
     /\ Len(argv) = 2) =>
    \A i \in 1..Len(log) : log[i] = "ok" => files[i].alb = DirName

\* C8 as stated: a run with a required argument missing, or with a folder
\* argument that is no directory, prints a message and ends with a non-zero
\* exit code.
BadInvocation ==
  IF tool = "art"
  THEN \/ Len(argv) < 1
       \/ argv[1] = "album" /\ Len(argv) < 2
       \/ \E j \in 1..Len(argv) : argv[j] # "album" /\ ~IsDir(argv[j])
  ELSE \/ Len(argv) < 2
       \/ ~IsDir(argv[2])

C8_Claim ==
  (pc = "exit" /\ BadInvocation) => (errPrinted /\ exitCode = 1)

\* C9 as stated: in shared mode without a local cover the search text is the
\* first file's album tag, else its title tag, else the folder name, and the
\* artist tag is attached whenever the file has one.
C9_Original ==
  (JustResolved /\ ~used_local_cover /\ audio.ok) =>
    /\ search_title =
         IF audio.alb # None THEN audio.alb
         ELSE IF audio.nam # None THEN audio.nam
         ELSE PathName(folder_path)
    /\ audio.art # None => search_artist = audio.art

\* C9 amended: the search text is the first file's album tag if it is not
\* empty, else its title tag if it is not empty, else the folder name; the
\* artist tag is attached in the first two cases, and no artist is attached
\* when the folder name is used (also when the file cannot be opened).
C9_SearchText ==
  (JustResolved /\ ~used_local_cover) =>
    IF audio.ok /\ TruthyText(audio.alb)
    THEN search_title = audio.alb /\ search_artist = audio.art
    ELSE IF audio.ok /\ TruthyText(audio.nam)
    THEN search_title = audio.nam /\ search_artist = audio.art
    ELSE search_title = PathName(folder_path) /\ search_artist = None

C9_Witness ==
  /\ JustResolved /\ ~used_local_cover /\ audio.ok
  /\ audio.alb = None /\ audio.nam = None /\ audio.art = "Art"
  /\ search_title = "Z" /\ search_artist = None

\* C10 as stated: a folder function called on a directory with n matched
\* files returns a pair with succeeded + failed = n, and the totals are the
\* sums of the pairs.
C10_Claim ==
  /\ Returned => ret[1] + ret[2] = Len(files)
  /\ (tool = "art" /\ pc = "loop") =>
       total_succeeded + total_failed =
         Len(files) * Cardinality({ j \in 1..(fi - 1) : IsDir(folders[j]) })

====
